---- MODULE Spec2Model ----
(***************************************************************************)
(* Hook lengths of d-complete posets: DCompletePoset._hooks, get_hook and  *)
(* get_hooks of src/src/sage/combinat/posets/d_complete.py.                *)
(*                                                                         *)
(* A poset instance is the pair (elements, covers): elements is the list   *)
(* of the poset's elements in the order of the linear extension the poset  *)
(* iterates in, covers the covering relation of its Hasse diagram.  The    *)
(* instance never changes.  The hook computation is a sequence of steps:   *)
(* one per base diamond, one per round of the chain-extension loop, one    *)
(* per dequeued element.  Dictionaries are functions on a finite domain.   *)
(***************************************************************************)
EXTENDS Integers, Sequences, FiniteSets, TLC

VARIABLES
    elements,       \* list(P): the elements, in linear-extension order
    covers,         \* set of <<x, y>>: y covers x
    cached,         \* TRUE once the instance holds the attribute _hooks
    cache,          \* the dictionary stored as self._hooks
    pc,             \* "idle" | "for" | "while" | "bfs": position inside _hooks
    diamonds,       \* local: self.diamonds()
    index,          \* local: position of the for loop in diamonds (from 1)
    min_diamond,    \* local dict
    max_diamond,    \* local dict
    diamond_index,  \* local dict (values are positions in diamonds, from 1)
    min_elmt,       \* local
    max_elmt,       \* local
    hooks,          \* local dict
    queue,          \* local deque
    enqueued,       \* local set
    calls,          \* number of accessor calls made so far
    lastCall,       \* [op, arg]: the accessor call that finished last
    result,         \* [kind, val]: what that call gave back
    retRef,         \* which dictionary object the caller holds: "none" | "copy" | "cache"
    retDict         \* the caller's own dictionary object (when retRef = "copy")

vars == << elements, covers, cached, cache, pc, diamonds, index, min_diamond,
           max_diamond, diamond_index, min_elmt, max_elmt, hooks, queue,
           enqueued, calls, lastCall, result, retRef, retDict >>

poset == << elements, covers >>
locals == << diamonds, index, min_diamond, max_diamond, diamond_index,
             min_elmt, max_elmt, hooks, queue, enqueued >>

-----------------------------------------------------------------------------
(* Bounds of the model *)

MaxElems == 5       \* the generic posets have 1..MaxElems elements
MaxCalls == 2       \* accessor calls per instance

-----------------------------------------------------------------------------
(* Dictionaries *)

EmptyDict == [k \in {} |-> 0]
Keys(d) == DOMAIN d
DictSet(d, k, v) == [x \in (DOMAIN d) \cup {k} |-> IF x = k THEN v ELSE d[x]]
DictDel(d, k) == [x \in (DOMAIN d) \ {k} |-> d[x]]

NotAnElement == 0 - 1    \* a value that is no element of any poset of the model

-----------------------------------------------------------------------------
(* The poset queries _hooks consumes *)

ElementSet == {elements[i] : i \in 1..Len(elements)}

Pos(e) == CHOOSE i \in 1..Len(elements) : elements[i] = e

RECURSIVE SortByPos(_)
SortByPos(S) ==
    IF S = {} THEN << >>
    ELSE LET m == CHOOSE x \in S : \A y \in S : Pos(x) <= Pos(y)
         IN  << m >> \o SortByPos(S \ {m})

LowerCoverSet(e) == {x \in ElementSet : << x, e >> \in covers}
UpperCoverSet(e) == {y \in ElementSet : << e, y >> \in covers}

lower_covers(e) == SortByPos(LowerCoverSet(e))
upper_covers(e) == SortByPos(UpperCoverSet(e))

minimal_elements == SortByPos({e \in ElementSet : LowerCoverSet(e) = {}})

RECURSIVE OrderIdeal(_)
OrderIdeal(e) == {e} \cup UNION {OrderIdeal(x) : x \in LowerCoverSet(e)}

order_ideal_cardinality(S) == Cardinality(UNION {OrderIdeal(e) : e \in S})

RECURSIVE SumOver(_, _)
SumOver(S, f) ==
    IF S = {} THEN 0
    ELSE LET x == CHOOSE y \in S : TRUE IN f[x] + SumOver(S \ {x}, f)

\* len(all_paths(a, b)) in the Hasse diagram
RECURSIVE NumPaths(_, _)
NumPaths(a, b) ==
    IF a = b THEN 1
    ELSE SumOver(UpperCoverSet(a), [c \in UpperCoverSet(a) |-> NumPaths(c, b)])

\* all (w, x, y, z) with x, y covering w and z covering x and y
DiamondSet ==
    {d \in ElementSet \X ElementSet \X ElementSet \X ElementSet :
        /\ Pos(d[2]) < Pos(d[3])
        /\ << d[1], d[2] >> \in covers /\ << d[1], d[3] >> \in covers
        /\ << d[2], d[4] >> \in covers /\ << d[3], d[4] >> \in covers}

DiamondKey(d) ==
    LET B == Len(elements) + 1
    IN  ((Pos(d[1]) * B + Pos(d[2])) * B + Pos(d[3])) * B + Pos(d[4])

RECURSIVE SortDiamonds(_)
SortDiamonds(S) ==
    IF S = {} THEN << >>
    ELSE LET m == CHOOSE x \in S : \A y \in S : DiamondKey(x) <= DiamondKey(y)
         IN  << m >> \o SortDiamonds(S \ {m})

Diamonds == SortDiamonds(DiamondSet)

-----------------------------------------------------------------------------
(* The poset instances of the model *)

Iota(n) == [i \in 1..n |-> i]

Pairs(n) == {p \in (1..n) \X (1..n) : p[1] < p[2]}

RECURSIVE ReachIn(_, _, _)
ReachIn(c, a, b) == a = b \/ \E p \in c : p[1] = a /\ ReachIn(c, p[2], b)

\* c is a covering relation: no cover is implied by a longer chain
IsHasse(c) ==
    \A p \in c : ~ \E q \in c : /\ q[1] = p[1]
                                /\ q[2] # p[2]
                                /\ ReachIn(c, q[2], p[2])

\* every poset on 1..n, n <= MaxElems, whose labelling is a linear extension
GenericPosets ==
    UNION {{[elements |-> Iota(n), covers |-> c] :
                c \in {h \in SUBSET Pairs(n) : IsHasse(h)}} : n \in 1..MaxElems}

\* Posets.DoubleTailedDiamond(2)
DoubleTailedDiamond2 ==
    [elements |-> << 1, 2, 3, 4, 5, 6 >>,
     covers |-> {<< 1, 2 >>, << 2, 3 >>, << 2, 4 >>, << 3, 5 >>, << 4, 5 >>, << 5, 6 >>}]

\* Posets.DoubleTailedDiamond(3)
DoubleTailedDiamond3 ==
    [elements |-> << 1, 2, 3, 4, 5, 6, 7, 8 >>,
     covers |-> {<< 1, 2 >>, << 2, 3 >>, << 3, 4 >>, << 3, 5 >>, << 4, 6 >>,
                 << 5, 6 >>, << 6, 7 >>, << 7, 8 >>}]

\* DiGraph({0: [1, 2], 1: [3], 2: [3], 3: []})
SingleDiamond ==
    [elements |-> << 0, 1, 2, 3 >>,
     covers |-> {<< 0, 1 >>, << 0, 2 >>, << 1, 3 >>, << 2, 3 >>}]

\* DiGraph({0: [1], 1: [2]})
Chain3 ==
    [elements |-> << 0, 1, 2 >>, covers |-> {<< 0, 1 >>, << 1, 2 >>}]

\* DiGraph({0: [1, 2], 1: [3], 2: [3], 3: [4]})
DiamondWithTop ==
    [elements |-> << 0, 1, 2, 3, 4 >>,
     covers |-> {<< 0, 1 >>, << 0, 2 >>, << 1, 3 >>, << 2, 3 >>, << 3, 4 >>}]

\* Posets.YoungDiagramPoset(Partition([3,2,1]))._hasse_diagram.reverse():
\* cells (0,0),(0,1),(0,2),(1,0),(1,1),(2,0) are 0..5, the corner cells are minimal
Young321Reversed ==
    [elements |-> << 5, 4, 3, 2, 1, 0 >>,
     covers |-> {<< 1, 0 >>, << 3, 0 >>, << 2, 1 >>, << 4, 1 >>, << 4, 3 >>, << 5, 3 >>}]

\* The double-tailed diamond 2 < 3 < {4, 5} < 6 < 7 with the one-element chain 1
\* attached below the side 4 (a slant sum, d-complete)
SlantSum ==
    [elements |-> << 1, 2, 3, 4, 5, 6, 7 >>,
     covers |-> {<< 1, 4 >>, << 2, 3 >>, << 3, 4 >>, << 3, 5 >>, << 4, 6 >>,
                 << 5, 6 >>, << 6, 7 >>}]

\* The double-tailed diamond 1 < 2 < {3, 4} < 5 whose only upper cover 7 also
\* covers the minimal element 6
ForkedTop ==
    [elements |-> << 1, 2, 3, 4, 5, 6, 7 >>,
     covers |-> {<< 1, 2 >>, << 2, 3 >>, << 2, 4 >>, << 3, 5 >>, << 4, 5 >>,
                 << 5, 7 >>, << 6, 7 >>}]

\* Not d-complete: 10 and 11 are tops of diamonds over 1 < {2, 3}, both cover 9,
\* which covers the five minimal elements 4..8, and 12 covers 10 and 11
StackedDiamonds ==
    [elements |-> << 1, 2, 3, 4, 5, 6, 7, 8, 9, 10, 11, 12 >>,
     covers |-> {<< 1, 2 >>, << 1, 3 >>, << 2, 10 >>, << 3, 10 >>, << 2, 11 >>,
                 << 3, 11 >>, << 4, 9 >>, << 5, 9 >>, << 6, 9 >>, << 7, 9 >>,
                 << 8, 9 >>, << 9, 10 >>, << 9, 11 >>, << 10, 12 >>, << 11, 12 >>}]

DocumentedPosets ==
    {DoubleTailedDiamond2, SingleDiamond, Chain3, DiamondWithTop, Young321Reversed}

Posets == GenericPosets \cup DocumentedPosets
            \cup {DoubleTailedDiamond3, SlantSum, ForkedTop, StackedDiamonds}

IsPoset(p) == elements = p.elements /\ covers = p.covers

-----------------------------------------------------------------------------
(* Initial state: an instance has been constructed, nothing is computed *)

NoCall == [op |-> "none", arg |-> NotAnElement]
NoResult == [kind |-> "none", val |-> 0]
KeyError == [kind |-> "KeyError", val |-> 0]

LocalsUnset ==
    /\ diamonds = << >>
    /\ index = 0
    /\ min_diamond = EmptyDict
    /\ max_diamond = EmptyDict
    /\ diamond_index = EmptyDict
    /\ min_elmt = NotAnElement
    /\ max_elmt = NotAnElement
    /\ hooks = EmptyDict
    /\ queue = << >>
    /\ enqueued = {}

Init ==
    /\ \E p \in Posets : IsPoset(p)
    /\ cached = FALSE
    /\ cache = EmptyDict
    /\ pc = "idle"
    /\ LocalsUnset
    /\ calls = 0
    /\ lastCall = NoCall
    /\ result = NoResult
    /\ retRef = "none"
    /\ retDict = EmptyDict

-----------------------------------------------------------------------------
(* The lazy attribute: the body of _hooks runs when the instance does not hold *)
(* the attribute, and the value it returns is stored on the instance           *)

LazyMiss == ~ cached

LazyStore(d) ==
    /\ cached' = TRUE
    /\ cache' = d

-----------------------------------------------------------------------------
(* The accessors get_hooks and get_hook, once self._hooks has a value d *)

\* variant: return self._hooks, the caller is handed the stored dictionary
AliasDict(d) == [ref |-> "cache", obj |-> d]

\* dict(self._hooks): a new dictionary object with the same entries
CopyDict(d) == [ref |-> "copy", obj |-> d]

CallSet ==
    {[op |-> "get_hooks", arg |-> NotAnElement]}
        \cup {[op |-> "get_hook", arg |-> e] : e \in ElementSet \cup {NotAnElement}}

\* return dict(self._hooks)
FinishGetHooks(d) ==
    /\ result' = [kind |-> "dict", val |-> 0]
    /\ retRef' = CopyDict(d).ref
    /\ retDict' = IF CopyDict(d).ref = "copy" THEN CopyDict(d).obj ELSE EmptyDict

\* return self._hooks[elmt]
FinishGetHook(d, e) ==
    /\ result' = IF e \in Keys(d) THEN [kind |-> "int", val |-> d[e]] ELSE KeyError
    /\ UNCHANGED << retRef, retDict >>

Finish(c, d) ==
    /\ lastCall' = c
    /\ IF c.op = "get_hooks" THEN FinishGetHooks(d) ELSE FinishGetHook(d, c.arg)

ResetLocals ==
    /\ diamonds' = << >>
    /\ index' = 0
    /\ min_diamond' = EmptyDict
    /\ max_diamond' = EmptyDict
    /\ diamond_index' = EmptyDict
    /\ min_elmt' = NotAnElement
    /\ max_elmt' = NotAnElement
    /\ hooks' = EmptyDict
    /\ queue' = << >>
    /\ enqueued' = {}

-----------------------------------------------------------------------------
(* _hooks, step by step *)

\* An accessor reads self._hooks on an instance that does not hold it yet:
\* the lazy attribute runs the body of _hooks up to the head of the for loop.
\* Which accessor it was only matters when the body ends, and is drawn there.
StartHooks ==
    /\ pc = "idle"
    /\ LazyMiss
    /\ calls < MaxCalls
    /\ calls' = calls + 1
    /\ pc' = "for"
    /\ hooks' = EmptyDict
    /\ min_diamond' = EmptyDict
    /\ max_diamond' = EmptyDict
    /\ diamonds' = Diamonds
    /\ diamond_index' = EmptyDict
    /\ index' = 1
    /\ UNCHANGED << poset, cached, cache, min_elmt, max_elmt, queue, enqueued,
                    lastCall, result, retRef, retDict >>

\* for index, d in enumerate(diamonds): the statements before the while loop
BaseDiamond ==
    /\ pc = "for"
    /\ index <= Len(diamonds)
    /\ LET d == diamonds[index]
       IN  /\ min_diamond' = DictSet(min_diamond, d[4], d[1])
           /\ max_diamond' = DictSet(max_diamond, d[1], d[4])
           /\ diamond_index' = DictSet(diamond_index, d[4], index)
           /\ min_elmt' = d[1]
           /\ max_elmt' = d[4]
    /\ pc' = "while"
    /\ UNCHANGED << poset, cached, cache, diamonds, index, hooks, queue, enqueued,
                    calls, lastCall, result, retRef, retDict >>

\* variant: one path is asked for instead of two
ExtendsChainOnePath(mn, mx) ==
    /\ Len(lower_covers(mx)) = 1
    /\ NumPaths(mn, mx) = 1

\* variant: the test on the lower covers of mx is left out
ExtendsChainPathsOnly(mn, mx) == NumPaths(mn, mx) = 2

\* the two tests of the inner for loop on a pair (mn, mx)
ExtendsChain(mn, mx) ==
    /\ Len(lower_covers(mx)) = 1
    /\ NumPaths(mn, mx) = 2

\* [(i, j) for i in potential_min for j in potential_max] that pass the tests
Candidates ==
    {p \in LowerCoverSet(min_elmt) \X UpperCoverSet(max_elmt) : ExtendsChain(p[1], p[2])}

PairKey(p) == Pos(p[1]) * (Len(elements) + 1) + Pos(p[2])

\* the first pair of the list that passes
FirstCandidate ==
    CHOOSE p \in Candidates : \A q \in Candidates : PairKey(p) <= PairKey(q)

\* one round of the while loop that finds a longer double-tailed diamond
ExtendFound ==
    /\ pc = "while"
    /\ Candidates # {}
    /\ LET mn == FirstCandidate[1]
           mx == FirstCandidate[2]
       IN  /\ min_elmt' = mn
           /\ max_elmt' = mx
           /\ min_diamond' = DictSet(min_diamond, mx, mn)
           /\ max_diamond' = DictSet(max_diamond, mn, mx)
           /\ diamond_index' = DictSet(diamond_index, mx, index)
    /\ UNCHANGED << poset, cached, cache, pc, diamonds, index, hooks, queue,
                    enqueued, calls, lastCall, result, retRef, retDict >>

\* the round that finds none: break, on to the next diamond
ExtendBreak ==
    /\ pc = "while"
    /\ Candidates = {}
    /\ pc' = "for"
    /\ index' = index + 1
    /\ UNCHANGED << poset, cached, cache, diamonds, min_diamond, max_diamond,
                    diamond_index, min_elmt, max_elmt, hooks, queue, enqueued,
                    calls, lastCall, result, retRef, retDict >>

\* the for loop is exhausted: queue = deque(self.minimal_elements())
StartQueue ==
    /\ pc = "for"
    /\ index > Len(diamonds)
    /\ queue' = minimal_elements
    /\ enqueued' = {}
    /\ pc' = "bfs"
    /\ UNCHANGED << poset, cached, cache, diamonds, index, min_diamond, max_diamond,
                    diamond_index, min_elmt, max_elmt, hooks, calls, lastCall,
                    result, retRef, retDict >>

\* variant: every upper cover is appended, enqueued or not
NewlyEnqueuedAll(elmt) == upper_covers(elmt)

\* for c in self.upper_covers(elmt): the covers appended to the queue, those
\* not in enqueued, which holds elmt by then
NewlyEnqueued(elmt) ==
    SelectSeq(upper_covers(elmt), LAMBDA c : c \notin enqueued \cup {elmt})

SeqToSet(q) == {q[i] : i \in 1..Len(q)}

\* the rest of a round of the queue loop, once hooks[elmt] = h is stored
Dequeue(elmt, h) ==
    /\ hooks' = DictSet(hooks, elmt, h)
    /\ queue' = Tail(queue) \o NewlyEnqueued(elmt)
    /\ enqueued' = enqueued \cup {elmt} \cup SeqToSet(NewlyEnqueued(elmt))
    /\ UNCHANGED << poset, cached, cache, pc, diamonds, index, min_diamond,
                    max_diamond, diamond_index, min_elmt, max_elmt, calls,
                    lastCall, result, retRef, retDict >>

\* the keys the recurrence reads in hooks
RecurrenceKeys(elmt) ==
    {diamonds[diamond_index[elmt]][2], diamonds[diamond_index[elmt]][3],
     min_diamond[elmt]}

\* variant: subtracts the hook of the diamond's own bottom, diamond[0]
RecurrenceBaseBottom(elmt) ==
    LET diamond == diamonds[diamond_index[elmt]]
    IN  hooks[diamond[2]] + hooks[diamond[3]] - hooks[diamond[1]]

\* variant: the hook of the bottom is added instead of subtracted
RecurrencePlus(elmt) ==
    LET diamond == diamonds[diamond_index[elmt]]
    IN  hooks[diamond[2]] + hooks[diamond[3]] + hooks[min_diamond[elmt]]

\* hooks[side1] + hooks[side2] - hooks[min_diamond[elmt]]
Recurrence(elmt) ==
    LET diamond == diamonds[diamond_index[elmt]]
        side1 == diamond[2]
        side2 == diamond[3]
    IN  hooks[side1] + hooks[side2] - hooks[min_diamond[elmt]]

\* variant: the order ideal of the lower covers, which leaves elmt out
IdealHookStrict(elmt) == order_ideal_cardinality(LowerCoverSet(elmt))

\* self.order_ideal_cardinality([elmt])
IdealHook(elmt) == order_ideal_cardinality({elmt})

\* a round of the queue loop for an element that is in no diamond_index
HookIdeal ==
    /\ pc = "bfs"
    /\ queue # << >>
    /\ Head(queue) \notin Keys(diamond_index)
    /\ Dequeue(Head(queue), IdealHook(Head(queue)))

\* a round of the queue loop for an element of diamond_index
HookRecurrence ==
    /\ pc = "bfs"
    /\ queue # << >>
    /\ Head(queue) \in Keys(diamond_index)
    /\ RecurrenceKeys(Head(queue)) \subseteq Keys(hooks)
    /\ Dequeue(Head(queue), Recurrence(Head(queue)))

\* variant: the failed lookup is swallowed and the hooks found so far are
\* returned and stored
HookKeyErrorPartial ==
    /\ pc = "bfs"
    /\ queue # << >>
    /\ Head(queue) \in Keys(diamond_index)
    /\ ~ (RecurrenceKeys(Head(queue)) \subseteq Keys(hooks))
    /\ LazyStore(hooks)
    /\ pc' = "idle"
    /\ ResetLocals
    /\ \E c \in CallSet : Finish(c, hooks)
    /\ UNCHANGED << poset, calls >>

\* the recurrence reads a key hooks does not hold: KeyError leaves _hooks and
\* the accessor that asked for it; the local hooks dictionary is dropped
HookKeyError ==
    /\ pc = "bfs"
    /\ queue # << >>
    /\ Head(queue) \in Keys(diamond_index)
    /\ ~ (RecurrenceKeys(Head(queue)) \subseteq Keys(hooks))
    /\ pc' = "idle"
    /\ ResetLocals
    /\ \E c \in CallSet : lastCall' = c
    /\ result' = KeyError
    /\ UNCHANGED << poset, cached, cache, calls, retRef, retDict >>

\* return hooks: the lazy attribute stores the dictionary on the instance and
\* the accessor that asked for it goes on with it
ReturnHooks ==
    /\ pc = "bfs"
    /\ queue = << >>
    /\ LazyStore(hooks)
    /\ pc' = "idle"
    /\ ResetLocals
    /\ \E c \in CallSet : Finish(c, hooks)
    /\ UNCHANGED << poset, calls >>

-----------------------------------------------------------------------------
(* Calls on an instance that holds _hooks, and the caller's own code *)

GetHooks ==
    /\ pc = "idle"
    /\ ~ LazyMiss
    /\ calls < MaxCalls
    /\ calls' = calls + 1
    /\ Finish([op |-> "get_hooks", arg |-> NotAnElement], cache)
    /\ UNCHANGED << poset, cached, cache, pc, locals >>

GetHook ==
    /\ pc = "idle"
    /\ ~ LazyMiss
    /\ calls < MaxCalls
    /\ calls' = calls + 1
    /\ \E e \in ElementSet \cup {NotAnElement} :
            Finish([op |-> "get_hook", arg |-> e], cache)
    /\ UNCHANGED << poset, cached, cache, pc, locals >>

\* what a caller may do to a dictionary it was handed
Mutations(d) ==
    {DictSet(d, elements[1], 0), DictSet(d, NotAnElement, 0), DictDel(d, elements[1])}

\* the caller changes the dictionary get_hooks returned
MutateReturned ==
    /\ pc = "idle"
    /\ retRef # "none"
    /\ \E m \in Mutations(IF retRef = "copy" THEN retDict ELSE cache) :
            /\ m # (IF retRef = "copy" THEN retDict ELSE cache)
            /\ IF retRef = "copy"
                 THEN retDict' = m /\ cache' = cache
                 ELSE cache' = m /\ retDict' = retDict
    /\ UNCHANGED << poset, cached, pc, locals, calls, lastCall, result, retRef >>

Next ==
    \/ StartHooks
    \/ BaseDiamond
    \/ ExtendFound
    \/ ExtendBreak
    \/ StartQueue
    \/ HookIdeal
    \/ HookRecurrence
    \/ HookKeyError
    \/ ReturnHooks
    \/ GetHooks
    \/ GetHook
    \/ MutateReturned

Spec == Init /\ [][Next]_vars

\* _hooks runs to its end once entered; callers need not call
HooksStep ==
    \/ BaseDiamond
    \/ ExtendFound
    \/ ExtendBreak
    \/ StartQueue
    \/ HookIdeal
    \/ HookRecurrence
    \/ HookKeyError
    \/ ReturnHooks

FairSpec == Spec /\ WF_vars(HooksStep)

-----------------------------------------------------------------------------
(* Vocabulary of the properties *)

Leq(x, y) == ReachIn(covers, x, y)
StrictlyBelow(x, y) == x # y /\ Leq(x, y)

\* _hooks stands at its return statement
AtReturn == pc = "bfs" /\ queue = << >>

\* the chain-tops, and what the diamond tables record for a chain-top e
ChainTops == Keys(diamond_index)
Side1(e) == diamonds[diamond_index[e]][2]
Side2(e) == diamonds[diamond_index[e]][3]
Bottom(e) == min_diamond[e]

BaseTops == {diamonds[i][4] : i \in 1..Len(diamonds)}

-----------------------------------------------------------------------------
(* C1 *)

\* C1: whenever the element at the head of the queue is in diamond_index, the
\* two sides of its recorded diamond and its recorded bottom already have an
\* entry in hooks, so the lookups of the recurrence never miss.
C1_DependenciesComputed ==
    (pc = "bfs" /\ queue # << >> /\ Head(queue) \in ChainTops)
        => {Side1(Head(queue)), Side2(Head(queue)), Bottom(Head(queue))}
                \subseteq Keys(hooks)

-----------------------------------------------------------------------------
(* C2 *)

RecurrenceHolds(e) == hooks[e] = hooks[Side1(e)] + hooks[Side2(e)] - hooks[Bottom(e)]

-----------------------------------------------------------------------------
(* C3 *)

IsChain ==
    covers = {<< elements[i], elements[i + 1] >> : i \in 1..(Len(elements) - 1)}

\* C3: every element with a hook that is no chain-top has as hook the number
\* of elements less than or equal to it; a minimal element is never a chain-top
\* and its hook is 1; in a chain the k-th element from the bottom has hook k.
C3_IdealCardinality ==
    pc = "bfs" =>
        /\ \A e \in Keys(hooks) \ ChainTops :
                hooks[e] = Cardinality({x \in ElementSet : Leq(x, e)})
        /\ \A m \in ElementSet :
                LowerCoverSet(m) = {}
                    => m \notin ChainTops /\ (m \in Keys(hooks) => hooks[m] = 1)
        /\ (IsChain /\ AtReturn)
                => \A k \in 1..Len(elements) : hooks[elements[k]] = k

\* the documented chain 0 < 1 < 2 at the return of _hooks, hook 2 for its
\* middle element
C3_Witness ==
    /\ AtReturn
    /\ IsPoset(Chain3)
    /\ ChainTops = {}
    /\ hooks[1] = 2

-----------------------------------------------------------------------------
(* C4 *)

NoDuplicates(q) == \A i, j \in 1..Len(q) : q[i] = q[j] => i = j

\* C4: the queue never holds an element twice nor one that already has a hook,
\* so no element is dequeued twice; when _hooks returns the keys of hooks are
\* exactly the elements; and on an instance that holds the mapping get_hook(e)
\* gives the hook of e for an element e and KeyError for anything else.
C4_Total ==
    /\ pc = "bfs" =>
            /\ NoDuplicates(queue)
            /\ SeqToSet(queue) \cap Keys(hooks) = {}
            /\ SeqToSet(queue) \cup Keys(hooks) \subseteq ElementSet
    /\ AtReturn => Keys(hooks) = ElementSet
    /\ (cached /\ lastCall.op = "get_hook") =>
            /\ lastCall.arg \in ElementSet
                    => result.kind = "int" /\ result.val = cache[lastCall.arg]
            /\ lastCall.arg \notin ElementSet => result = KeyError

\* get_hook of something that is no element has failed on an instance that
\* holds the hooks of a poset with a diamond
C4_Witness ==
    /\ cached
    /\ DiamondSet # {}
    /\ lastCall = [op |-> "get_hook", arg |-> NotAnElement]
    /\ result = KeyError
    /\ Keys(cache) = ElementSet

-----------------------------------------------------------------------------
(* C5 *)

\* a step in which an accessor call gives its result
CallEnds == (pc = "bfs" /\ pc' = "idle") \/ (pc = "idle" /\ calls' = calls + 1 /\ cached)

\* C5: once the instance holds the mapping, _hooks is never entered again and
\* the mapping never changes, whatever the caller does to the dictionaries it
\* was handed; get_hooks hands out a dictionary of its own with the entries of
\* the mapping, and get_hook the entry of the mapping.
C5_CacheStable ==
    [][/\ cached => (cached' /\ cache' = cache /\ pc' = "idle")
       /\ (CallEnds /\ cached' /\ lastCall'.op = "get_hooks")
            => (result'.kind = "dict" /\ retRef' = "copy" /\ retDict' = cache')
       /\ (CallEnds /\ cached' /\ lastCall'.op = "get_hook"
                /\ lastCall'.arg \in Keys(cache'))
            => result' = [kind |-> "int", val |-> cache'[lastCall'.arg]]
      ]_vars

\* after the caller changed the dictionary it got, a second call returned an
\* entry of the unchanged mapping
C5_Witness ==
    /\ cached
    /\ calls = 2
    /\ retRef = "copy"
    /\ retDict # cache
    /\ lastCall.op = "get_hook"
    /\ result.kind = "int"
    /\ result.val = cache[lastCall.arg]

-----------------------------------------------------------------------------
(* C6 *)

\* C6: a mapping is stored on the instance only by the return of _hooks and
\* then has an entry for every element; as long as none is stored, no
\* dictionary has been handed out and every finished call has failed; a
\* computation that fails leaves the instance without the attribute.
C6_NoPartialResults ==
    /\ cached => Keys(cache) = ElementSet
    /\ ~ cached =>
            /\ cache = EmptyDict
            /\ retRef = "none"
            /\ retDict = EmptyDict
            /\ result.kind \in {"none", "KeyError"}
    /\ pc # "idle" => Keys(hooks) \subseteq ElementSet

\* a computation has failed twice with hooks half filled, nothing is stored
C6_Witness ==
    /\ pc = "idle"
    /\ ~ cached
    /\ calls = 2
    /\ result = KeyError
    /\ lastCall.op = "get_hooks"

-----------------------------------------------------------------------------
(* C7 *)

\* a round of the extension loop that found a pair
Extended == pc = "while" /\ pc' = "while" /\ max_elmt' # max_elmt

\* C7: on DoubleTailedDiamond(2) the diamond (2, 3, 4, 5) is extended once, to
\* bottom 1 and top 6, and the hooks returned are 1, 2, 3, 3, 4, 5; every
\* extension step takes a lower cover of the bottom and an upper cover of the
\* top that has one lower cover and two directed paths from the new bottom.
C7_DoubleTailedDiamond ==
    /\ [](AtReturn /\ IsPoset(DoubleTailedDiamond2) =>
            /\ diamonds = << << 2, 3, 4, 5 >> >>
            /\ ChainTops = {5, 6}
            /\ Side1(6) = 3 /\ Side2(6) = 4 /\ Bottom(6) = 1
            /\ Bottom(5) = 2
            /\ hooks = << 1, 2, 3, 3, 4, 5 >>)
    /\ [][Extended =>
            /\ min_elmt' \in LowerCoverSet(min_elmt)
            /\ max_elmt' \in UpperCoverSet(max_elmt)
            /\ Cardinality(LowerCoverSet(max_elmt')) = 1
            /\ NumPaths(min_elmt', max_elmt') = 2
            /\ min_diamond' = DictSet(min_diamond, max_elmt', min_elmt')
            /\ diamond_index' = DictSet(diamond_index, max_elmt', index)
         ]_vars

\* _hooks returns on DoubleTailedDiamond(2) with 6 recorded as a chain-top
C7_Witness ==
    /\ AtReturn
    /\ IsPoset(DoubleTailedDiamond2)
    /\ 6 \in ChainTops
    /\ hooks[6] = 5

-----------------------------------------------------------------------------
(* C8 *)

RECURSIVE Factorial(_)
Factorial(n) == IF n = 0 THEN 1 ELSE n * Factorial(n - 1)

RECURSIVE ProductOver(_, _)
ProductOver(S, f) ==
    IF S = {} THEN 1
    ELSE LET x == CHOOSE y \in S : TRUE IN f[x] * ProductOver(S \ {x}, f)

\* the number of linear extensions of the elements in the up-set S
RECURSIVE CountExtensions(_)
CountExtensions(S) ==
    IF S = {} THEN 1
    ELSE LET M == {x \in S : LowerCoverSet(x) \cap S = {}}
         IN  SumOver(M, [x \in M |-> CountExtensions(S \ {x})])

\* n! = count * (product of the hooks)
HookLengthFormula(count) ==
    Factorial(Len(elements)) = count * ProductOver(ElementSet, hooks)

\* C8: with the hooks _hooks returns, n! over the product of the hooks is the
\* number of linear extensions: 2 for the diamond with one element on top
\* (hooks 1, 2, 2, 3, 5) and 16 for the reversed Young-diagram poset of
\* [3, 2, 1] (hooks 0:5, 1:3, 2:1, 3:3, 4:1, 5:1).
C8_HookLengthFormula ==
    /\ (AtReturn /\ IsPoset(DiamondWithTop)) =>
            /\ hooks = [e \in 0..4 |-> << 1, 2, 2, 3, 5 >>[e + 1]]
            /\ HookLengthFormula(2)
            /\ CountExtensions(ElementSet) = 2
    /\ (AtReturn /\ IsPoset(Young321Reversed)) =>
            /\ hooks = [e \in 0..5 |-> << 5, 3, 1, 3, 1, 1 >>[e + 1]]
            /\ HookLengthFormula(16)
            /\ CountExtensions(ElementSet) = 16

\* _hooks returns on the reversed Young-diagram poset, its top 0 a chain-top
C8_Witness ==
    /\ AtReturn
    /\ IsPoset(Young321Reversed)
    /\ ChainTops = {0}
    /\ ProductOver(ElementSet, hooks) = 45

-----------------------------------------------------------------------------
(* C9 *)

\* C9: once entered, _hooks reaches its return statement, which stores the
\* mapping on the instance.
C9_ReachesReturn == (pc # "idle") ~> cached

-----------------------------------------------------------------------------
(* C10 *)

\* C10: while _hooks runs, diamond_index and min_diamond have the same keys;
\* for each key the recorded bottom and the two recorded sides are strictly
\* below it; a key that is the top of a base diamond has at least two lower
\* covers and still holds the entry of a base diamond with that top, and
\* every other key has exactly one lower cover.
C10_DiamondTables ==
    pc # "idle" =>
        /\ Keys(diamond_index) = Keys(min_diamond)
        /\ \A e \in ChainTops :
                /\ diamond_index[e] \in 1..Len(diamonds)
                /\ StrictlyBelow(Bottom(e), e)
                /\ StrictlyBelow(Side1(e), e)
                /\ StrictlyBelow(Side2(e), e)
                /\ e \in BaseTops =>
                        /\ Cardinality(LowerCoverSet(e)) >= 2
                        /\ diamonds[diamond_index[e]][4] = e
                        /\ Bottom(e) = diamonds[diamond_index[e]][1]
                /\ e \notin BaseTops => Cardinality(LowerCoverSet(e)) = 1

\* the diamond pass is over on a poset where the upper cover 7 of the top 5 was
\* passed over for having two lower covers: 5 keeps its base entry
C10_Witness ==
    /\ pc = "bfs"
    /\ IsPoset(ForkedTop)
    /\ ChainTops = {5}
    /\ Bottom(5) = 2

====
